---- MODULE Spec2Model ----
(***************************************************************************)
(* Fidelity account overview (src/app.py): the cleaning and filtering of   *)
(* a holdings table, the per-account aggregation, and the dashboard run    *)
(* that memoizes both functions and renders their results.                 *)
(*                                                                         *)
(* A DataFrame is [columns, data]: the column labels in order and the rows *)
(* in order, each row a tuple of cells aligned with the labels.  A string  *)
(* (a label or a cell's text) is a sequence of tokens, so that lower(),    *)
(* replace() and float() act on its content.                               *)
(***************************************************************************)
EXTENDS Integers, Sequences, FiniteSets, TLC

VARIABLES
    df_raw,        \* the frame handed to clean_data (main: read_csv's result)
    df_clean,      \* the frame clean_data returned
    df_filtered,   \* the frame filter_data returned
    totals,        \* the frame groupby("account_name").sum() returned
    sel_accounts,  \* account_selections handed to filter_data
    sel_symbols,   \* symbol_selections handed to filter_data
    status,        \* where the run stands
    err,           \* the exception that ended the run, "none" if none
    alias,         \* the last returned frame is the very object it was given
    rendered,      \* the page: the elements written so far, in order
    uploaded,      \* the file uploader's value
    acct_widget,   \* the account multiselect: the options it showed, its value
    sym_widget,    \* the symbol multiselect: the options it showed, its value
    memo_clean,    \* st.experimental_memo's entries for clean_data
    memo_filter,   \* st.experimental_memo's entries for filter_data
    hits,          \* which memoized calls of the last run were cache hits
    events         \* user interactions so far in the session

vars == <<df_raw, df_clean, df_filtered, totals, sel_accounts, sel_symbols,
          status, err, alias, rendered, uploaded, acct_widget, sym_widget,
          memo_clean, memo_filter, hits, events>>

\* Rows per uploaded table in the function-level specifications.
MaxRows == 2
\* User interactions per dashboard session.
MaxEvents == 3

-----------------------------------------------------------------------------
(* Cells *)

\* A missing value (pandas NaN), a string, a float.
NA == [k |-> "na", s |-> <<>>, v |-> 0]
Str(s) == [k |-> "str", s |-> s, v |-> 0]
Num(v) == [k |-> "num", s |-> <<>>, v |-> v]

isna(c) == c.k = "na"

-----------------------------------------------------------------------------
(* Strings *)

\* str.lower() of one token.
LowerToken(t) ==
    CASE t = "Account" -> "account"
      [] t = "Name" -> "name"
      [] t = "Symbol" -> "symbol"
      [] t = "Quantity" -> "quantity"
      [] t = "Last" -> "last"
      [] t = "Price" -> "price"
      [] t = "Current" -> "current"
      [] t = "Value" -> "value"
      [] t = "Total" -> "total"
      [] t = "Gain" -> "gain"
      [] t = "Loss" -> "loss"
      [] t = "Dollar" -> "dollar"
      [] t = "Cost" -> "cost"
      [] t = "Basis" -> "basis"
      [] t = "Per" -> "per"
      [] t = "Share" -> "share"
      [] t = "Type" -> "type"
      [] OTHER -> t

str_lower(s) == [i \in 1..Len(s) |-> LowerToken(s[i])]

\* str.replace(old, new, regex=False) with old one character and new a string.
RECURSIVE str_replace(_, _, _)
str_replace(s, old, new) ==
    IF s = <<>> THEN <<>>
    ELSE (IF Head(s) = old THEN new ELSE <<Head(s)>>) \o str_replace(Tail(s), old, new)

DigitValue(t) ==
    CASE t = "0" -> 0 [] t = "1" -> 1 [] t = "2" -> 2 [] t = "3" -> 3
      [] t = "4" -> 4 [] t = "5" -> 5 [] t = "6" -> 6 [] t = "7" -> 7
      [] t = "8" -> 8 [] t = "9" -> 9

Digits == {"0", "1", "2", "3", "4", "5", "6", "7", "8", "9"}

IsDigits(s) == s # <<>> /\ \A i \in 1..Len(s) : s[i] \in Digits

RECURSIVE DigitsValue(_)
DigitsValue(s) ==
    IF s = <<>> THEN 0
    ELSE 10 * DigitsValue(SubSeq(s, 1, Len(s) - 1)) + DigitValue(s[Len(s)])

\* float(s) as astype(float) applies it to each string: a signed run of
\* digits is its value, "nan" is NaN (the missing value), anything else
\* (the empty string too) raises ValueError.
to_float(s) ==
    IF IsDigits(s) THEN [ok |-> TRUE, cell |-> Num(DigitsValue(s))]
    ELSE IF s # <<>> /\ Head(s) = "-" /\ IsDigits(Tail(s))
         THEN [ok |-> TRUE, cell |-> Num(0 - DigitsValue(Tail(s)))]
    ELSE IF s = <<"nan">> THEN [ok |-> TRUE, cell |-> NA]
    ELSE [ok |-> FALSE, cell |-> NA]

-----------------------------------------------------------------------------
(* Labels *)

H_account_name == <<"Account", " ", "Name">>
H_symbol == <<"Symbol">>
H_quantity == <<"Quantity">>
H_last_price == <<"Last", " ", "Price">>
H_current_value == <<"Current", " ", "Value">>
H_total_gain_loss_dollar == <<"Total", " ", "Gain", "/", "Loss", " ", "Dollar">>
H_cost_basis_per_share == <<"Cost", " ", "Basis", " ", "Per", " ", "Share">>
H_type == <<"Type">>

account_name == <<"account", "_", "name">>
symbol == <<"symbol">>
quantity == <<"quantity">>
last_price == <<"last", "_", "price">>
current_value == <<"current", "_", "value">>
total_gain_loss_dollar == <<"total", "_", "gain", "_", "loss", "_", "dollar">>
cost_basis_per_share == <<"cost", "_", "basis", "_", "per", "_", "share">>
type == <<"type">>

\* df.columns.str.lower().str.replace(" ", "_").str.replace("/", "_")
normalize_label(h) ==
    str_replace(str_replace(str_lower(h), " ", <<"_">>), "/", <<"_">>)

-----------------------------------------------------------------------------
(* Frames *)

NoFrame == [columns |-> <<>>, data |-> <<>>]

\* Index.get_loc(label), 1-based.
get_loc(columns, label) ==
    CHOOSE i \in 1..Len(columns) : columns[i] = label

\* df[label] as a Series: the column's cells in row order.
Series(df, label) ==
    [i \in 1..Len(df.data) |-> df.data[i][get_loc(df.columns, label)]]

\* df[label] = series
AssignColumn(df, label, series) ==
    [df EXCEPT !.data =
        [i \in 1..Len(df.data) |->
            [df.data[i] EXCEPT ![get_loc(df.columns, label)] = series[i]]]]

\* df[[labels]]: the named columns in the order named, a label named twice
\* giving its column twice.
SelectColumns(df, labels) ==
    [columns |-> labels,
     data |-> [i \in 1..Len(df.data) |->
                 [j \in 1..Len(labels) |-> df.data[i][get_loc(df.columns, labels[j])]]]]

\* df[mask]: the rows whose mask entry is True, in order.
RECURSIVE RowsWhere(_, _)
RowsWhere(data, mask) ==
    IF data = <<>> THEN <<>>
    ELSE (IF Head(mask) THEN <<Head(data)>> ELSE <<>>) \o RowsWhere(Tail(data), Tail(mask))

-----------------------------------------------------------------------------
(* Names and objects.  Inside a function the parameter df is a name bound   *)
(* to the caller's frame; assigning through the name (df.columns = ...,     *)
(* df[cols] = ...) changes the object it is bound to, while df = <expr>     *)
(* binds the name to a new object.  An environment carries the caller's     *)
(* object (arg), the object the name df is bound to, whether they are the   *)
(* same object (shared), and the exception raised so far.                   *)

Enter(df) == [arg |-> df, df |-> df, shared |-> TRUE, err |-> "none"]

Rebind(env, frame) == [env EXCEPT !.df = frame, !.shared = FALSE]

Mutate(env, frame) ==
    [env EXCEPT !.df = frame, !.arg = IF env.shared THEN frame ELSE env.arg]

Raise(env, exception) == [env EXCEPT !.err = exception]

\* df = df.copy() left out: the name stays bound to the caller's frame.
copy_missing(env) == env

\* df = df.copy()
copy(env) == Rebind(env, env.df)

-----------------------------------------------------------------------------
(* clean_data *)

\* df.columns = df.columns.str.lower().str.replace(...).str.replace(...)
rename_columns(env) ==
    Mutate(env, [env.df EXCEPT !.columns =
        [j \in 1..Len(env.df.columns) |-> normalize_label(env.df.columns[j])]])

fillna(series, value) ==
    [i \in 1..Len(series) |-> IF isna(series[i]) THEN value ELSE series[i]]

\* The fill left out.
fill_type_missing(env) == env

\* df.type = df.type.fillna("unknown")
fill_type(env) ==
    Mutate(env, AssignColumn(env.df, type, fillna(Series(env.df, type), Str(<<"unknown">>))))

RowHasNA(row) == \E j \in 1..Len(row) : isna(row[j])

\* df = df.dropna()
dropna(env) ==
    Rebind(env, [env.df EXCEPT !.data =
        RowsWhere(env.df.data, [i \in 1..Len(env.df.data) |-> ~RowHasNA(env.df.data[i])])])

\* s.str.replace("$", "").str.replace("%", "") of one cell; a missing cell
\* stays missing.
strip_symbols(c) ==
    IF isna(c) THEN c ELSE Str(str_replace(str_replace(c.s, "$", <<>>), "%", <<>>))

\* .astype(float) of one cell.
astype_float(c) ==
    IF isna(c) THEN [ok |-> TRUE, cell |-> NA] ELSE to_float(c.s)

\* The slice without its last column.
price_columns_short(columns) ==
    SubSeq(columns, get_loc(columns, last_price), get_loc(columns, cost_basis_per_share) - 1)

\* df.columns[price_index : cost_basis_index + 1]
price_columns(columns) ==
    SubSeq(columns, get_loc(columns, last_price), get_loc(columns, cost_basis_per_share))

InSeq(x, s) == \E j \in 1..Len(s) : s[j] = x

Members(list) == {list[j] : j \in 1..Len(list)}

\* The conversion with text that does not parse turned into NaN, nothing
\* raised.
convert_prices_coerce(env) ==
    LET df == env.df
        cols == price_columns(df.columns)
    IN  Mutate(env, [df EXCEPT !.data =
            [i \in 1..Len(df.data) |->
                [j \in 1..Len(df.columns) |->
                    IF InSeq(df.columns[j], cols)
                    THEN astype_float(strip_symbols(df.data[i][j])).cell
                    ELSE df.data[i][j]]]])

\* df[cols] = df[cols].transform(lambda s: s.str.replace...astype(float)):
\* ValueError as soon as one cell of the slice does not parse, otherwise the
\* slice's cells replaced by their floats.
convert_prices(env) ==
    LET df == env.df
        cols == price_columns(df.columns)
        conv(c) == astype_float(strip_symbols(c))
        bad == \E i \in 1..Len(df.data) : \E j \in 1..Len(df.columns) :
                  InSeq(df.columns[j], cols) /\ ~conv(df.data[i][j]).ok
    IN  IF env.err # "none" THEN env
        ELSE IF bad THEN Raise(env, "ValueError")
        ELSE Mutate(env, [df EXCEPT !.data =
                [i \in 1..Len(df.data) |->
                    [j \in 1..Len(df.columns) |->
                        IF InSeq(df.columns[j], cols)
                        THEN conv(df.data[i][j]).cell
                        ELSE df.data[i][j]]]])

\* The trailing columns placed before the leading ones.
column_order_swapped(columns) ==
    LET q == get_loc(columns, quantity)
        c == get_loc(columns, cost_basis_per_share)
    IN  SubSeq(columns, q, c) \o SubSeq(columns, c + 1, Len(columns))
            \o SubSeq(columns, 1, q - 1)

\* [*most_relevant_columns, *first_columns, *last_columns]
column_order(columns) ==
    LET q == get_loc(columns, quantity)
        c == get_loc(columns, cost_basis_per_share)
    IN  SubSeq(columns, q, c) \o SubSeq(columns, 1, q - 1)
            \o SubSeq(columns, c + 1, Len(columns))

\* df = df[[*most_relevant_columns, *first_columns, *last_columns]]
reorder_columns(env) ==
    IF env.err # "none" THEN env
    ELSE Rebind(env, SelectColumns(env.df, column_order(env.df.columns)))

\* The numbers parsed before the incomplete rows are dropped.
clean_data_parse_first(df) ==
    reorder_columns(dropna(convert_prices(fill_type(rename_columns(copy(Enter(df)))))))

\* clean_data(df): the environment at return (df the returned frame) or at
\* the raise.
clean_data(df) ==
    reorder_columns(convert_prices(dropna(fill_type(rename_columns(copy(Enter(df)))))))

-----------------------------------------------------------------------------
(* filter_data *)

\* Series.isin(values)
isin(series, values) ==
    [i \in 1..Len(series) |-> series[i].k = "str" /\ InSeq(series[i].s, values)]

\* The masks joined with | in place of &.
mask_or(m1, m2) == [i \in 1..Len(m1) |-> m1[i] \/ m2[i]]

\* mask & mask
mask_and(m1, m2) == [i \in 1..Len(m1) |-> m1[i] /\ m2[i]]

\* filter_data(df, account_selections, symbol_selections): the environment
\* at return.
filter_data(df, account_selections, symbol_selections) ==
    LET env == copy(Enter(df))
        mask == mask_and(isin(Series(env.df, account_name), account_selections),
                         isin(Series(env.df, symbol), symbol_selections))
    IN  Rebind(env, [env.df EXCEPT !.data = RowsWhere(env.df.data, mask)])

-----------------------------------------------------------------------------
(* df.groupby("account_name", as_index=False).sum() *)

\* The order of one-letter names.
LetterRank(name) ==
    CASE name = <<"A">> -> 1 [] name = <<"B">> -> 2 [] name = <<"C">> -> 3
      [] OTHER -> 4

\* The group keys, sorted; a missing key makes no group.
RECURSIVE SortedKeys(_)
SortedKeys(keys) ==
    IF keys = {} THEN <<>>
    ELSE LET least == CHOOSE a \in keys : \A b \in keys : LetterRank(a) <= LetterRank(b)
         IN  <<least>> \o SortedKeys(keys \ {least})

\* A column is summed when it holds no string (a numeric dtype).
IsNumeric(df, j) == \A i \in 1..Len(df.data) : df.data[i][j].k # "str"

RECURSIVE NumericColumns(_, _)
NumericColumns(df, j) ==
    IF j > Len(df.columns) THEN <<>>
    ELSE (IF df.columns[j] # account_name /\ IsNumeric(df, j)
          THEN <<df.columns[j]>> ELSE <<>>) \o NumericColumns(df, j + 1)

\* The last value of the group in place of its sum.
RECURSIVE sum_last(_)
sum_last(series) ==
    IF series = <<>> THEN 0
    ELSE IF series[Len(series)].k = "num" THEN series[Len(series)].v
    ELSE sum_last(SubSeq(series, 1, Len(series) - 1))

\* Series.sum(): the missing values skipped.
RECURSIVE sum(_)
sum(series) ==
    IF series = <<>> THEN 0
    ELSE (IF Head(series).k = "num" THEN Head(series).v ELSE 0) + sum(Tail(series))

groupby_sum(df) ==
    LET names == Series(df, account_name)
        keys == SortedKeys({names[i].s : i \in {i \in 1..Len(names) : names[i].k = "str"}})
        numeric == NumericColumns(df, 1)
        group(key) == RowsWhere(df.data, isin(names, <<key>>))
        members(key) == [columns |-> df.columns, data |-> group(key)]
    IN  [columns |-> <<account_name>> \o numeric,
         data |-> [g \in 1..Len(keys) |->
                     <<Str(keys[g])>> \o
                     [j \in 1..Len(numeric) |->
                         Num(sum(Series(members(keys[g]), numeric[j])))]]]

-----------------------------------------------------------------------------
(* Inputs *)

\* Header orders.  GainsInside has the total gain/loss ahead of the cost
\* basis; Vocabulary is the order the interface description lists; in
\* QuantityLast quantity follows the cost basis.  In each, last_price comes
\* before cost_basis_per_share and quantity lies outside the two.
GainsInside == <<H_account_name, H_symbol, H_quantity, H_last_price, H_current_value,
                 H_total_gain_loss_dollar, H_cost_basis_per_share, H_type>>
Vocabulary == <<H_account_name, H_symbol, H_quantity, H_last_price, H_current_value,
                H_cost_basis_per_share, H_total_gain_loss_dollar, H_type>>
QuantityLast == <<H_account_name, H_symbol, H_last_price, H_current_value,
                  H_cost_basis_per_share, H_total_gain_loss_dollar, H_quantity, H_type>>
CostBasisLast == <<H_type, H_account_name, H_symbol, H_quantity, H_last_price,
                   H_current_value, H_total_gain_loss_dollar, H_cost_basis_per_share>>
QuantityFirst == <<H_quantity, H_last_price, H_current_value, H_cost_basis_per_share,
                   H_account_name, H_symbol, H_total_gain_loss_dollar, H_type>>

Headers == {GainsInside, Vocabulary, QuantityLast, CostBasisLast, QuantityFirst}

\* One holding as read_csv yields it: quantity a number, the money columns
\* text, an empty field missing.
Holding(acct, sym, price, value, kind) ==
    (H_account_name :> acct) @@ (H_symbol :> sym) @@ (H_quantity :> Num(1))
        @@ (H_last_price :> price) @@ (H_current_value :> value)
        @@ (H_total_gain_loss_dollar :> Str(<<"-", "$", "3">>))
        @@ (H_cost_basis_per_share :> Str(<<"$", "4">>)) @@ (H_type :> kind)

RowOf(header, holding) == [j \in 1..Len(header) |-> holding[header[j]]]

\* The table of the holdings under a header order.
TableOf(header, holdings) ==
    [columns |-> header,
     data |-> [i \in 1..Len(holdings) |-> RowOf(header, holdings[i])]]

A == <<"A">>
B == <<"B">>
X == <<"X">>
Y == <<"Y">>

\* What a money field may hold: a well-formed amount, a lone symbol, text
\* that is no number, the text of NaN behind a currency sign, nothing.
PriceFields ==
    {Str(<<"1", "2", "%">>), Str(<<"$">>), Str(<<"x">>), Str(<<"$", "nan">>), NA}

MessyHoldings ==
    {Holding(acct, Str(X), price, Str(<<"$", "5">>), kind) :
        acct \in {Str(A), NA}, price \in PriceFields, kind \in {Str(<<"Cash">>), NA}}

TidyHoldings ==
    {Holding(Str(acct), Str(sym), Str(<<"$", "1">>), value, Str(<<"Cash">>)) :
        acct \in {A, B}, sym \in {X, Y}, value \in {Str(<<"$", "1">>), Str(<<"2", "%">>)}}

\* The lists without repeats over the names a, b.
Lists(a, b) == {<<>>, <<a>>, <<b>>, <<a, b>>, <<b, a>>}

-----------------------------------------------------------------------------
(* The functions applied in turn to an input *)

NoWidget == [options |-> <<>>, value |-> <<>>]
NoHits == [clean |-> FALSE, filter |-> FALSE]

Idle ==
    /\ df_clean = NoFrame /\ df_filtered = NoFrame /\ totals = NoFrame
    /\ sel_accounts = <<>> /\ sel_symbols = <<>>
    /\ err = "none" /\ alias = FALSE
    /\ rendered = <<>> /\ uploaded = NoFrame
    /\ acct_widget = NoWidget /\ sym_widget = NoWidget
    /\ memo_clean = {} /\ memo_filter = {} /\ hits = NoHits /\ events = 0

session == <<rendered, uploaded, acct_widget, sym_widget, memo_clean, memo_filter,
             hits, events>>

\* df = clean_data(df)
CleanStep ==
    /\ status = "raw"
    /\ LET env == clean_data(df_raw)
       IN  /\ df_raw' = env.arg
           /\ err' = env.err
           /\ status' = IF env.err = "none" THEN "cleaned" ELSE "error"
           /\ df_clean' = IF env.err = "none" THEN env.df ELSE NoFrame
           /\ alias' = (env.err = "none" /\ env.shared)
    /\ UNCHANGED <<df_filtered, totals, sel_accounts, sel_symbols, session>>

\* df = filter_data(df, account_selections, symbol_selections)
FilterStep ==
    /\ status = "cleaned"
    /\ \E accounts \in Lists(A, B), symbols \in Lists(X, Y) :
          LET env == filter_data(df_clean, accounts, symbols)
          IN  /\ df_clean' = env.arg
              /\ df_filtered' = env.df
              /\ alias' = env.shared
              /\ sel_accounts' = accounts
              /\ sel_symbols' = symbols
    /\ status' = "filtered"
    /\ UNCHANGED <<df_raw, totals, err, session>>

\* totals = df.groupby("account_name", as_index=False).sum()
AggregateStep ==
    /\ status = "filtered"
    /\ totals' = groupby_sum(df_filtered)
    /\ status' = "aggregated"
    /\ UNCHANGED <<df_raw, df_clean, df_filtered, sel_accounts, sel_symbols, err,
                   alias, session>>

\* Every table of at most MaxRows messy holdings under every header order.
InitClean ==
    /\ \E header \in Headers, n \in 0..MaxRows :
          \E holdings \in [1..n -> MessyHoldings] : df_raw = TableOf(header, holdings)
    /\ status = "raw"
    /\ Idle
NextClean == CleanStep
SpecClean == InitClean /\ [][NextClean]_vars

\* Every table of at most MaxRows tidy holdings.
InitPipeline ==
    /\ \E n \in 0..MaxRows :
          \E holdings \in [1..n -> TidyHoldings] : df_raw = TableOf(GainsInside, holdings)
    /\ status = "raw"
    /\ Idle
NextPipeline == CleanStep \/ FilterStep \/ AggregateStep
SpecPipeline == InitPipeline /\ [][NextPipeline]_vars

-----------------------------------------------------------------------------
(* The dashboard: main() runs from top to bottom on the first load and   *)
(* again after every user interaction.                                    *)

\* Series.unique(): the values in order of first appearance.
RECURSIVE unique(_)
unique(series) ==
    IF series = <<>> THEN <<>>
    ELSE LET front == SubSeq(series, 1, Len(series) - 1)
             last == series[Len(series)]
         IN  IF InSeq(last, front) THEN unique(front) ELSE unique(front) \o <<last>>

Texts(series) == [i \in 1..Len(series) |-> series[i].s]

\* st.sidebar.multiselect(label, options=options, default=options): the
\* value the user left in the widget, the default for a widget not shown
\* with these options before.
multiselect(widget, options) ==
    IF widget.options = options THEN widget.value ELSE options

\* The uploads a user may drop on the page, as read_csv yields them.
Cash == Str(<<"Cash">>)
Dollar1 == Str(<<"$", "1">>)
Dollar2 == Str(<<"$", "2">>)
Table(holdings) == TableOf(GainsInside, holdings)

ExampleFile ==
    Table(<<Holding(Str(A), Str(X), Dollar1, Dollar1, Cash),
            Holding(Str(A), Str(Y), Dollar1, Dollar2, NA),
            Holding(Str(B), Str(X), Dollar1, Dollar2, Cash)>>)
OneAccountFile ==
    Table(<<Holding(Str(B), Str(X), Dollar1, Dollar1, Cash),
            Holding(Str(B), Str(Y), Dollar2, Dollar2, Cash)>>)
BadKeptFile ==
    Table(<<Holding(Str(A), Str(X), Dollar1, Dollar1, Cash),
            Holding(Str(A), Str(Y), Str(<<"$", "x">>), Dollar2, Cash)>>)
BadDroppedFile ==
    Table(<<Holding(NA, Str(X), Str(<<"$", "x">>), Dollar1, Cash),
            Holding(Str(A), Str(Y), Dollar1, Dollar2, Cash)>>)
NaNPriceFile ==
    Table(<<Holding(Str(A), Str(X), Str(<<"$", "nan">>), Dollar1, Cash)>>)

Files == {OneAccountFile, BadKeptFile, BadDroppedFile, NaNPriceFile}

\* The selections a multiselect over the options can hold.
Selections(options) ==
    {list \in UNION {[1..n -> Members(options)] : n \in 0..Len(options)} :
        \A i, j \in 1..Len(list) : list[i] = list[j] => i = j}

\* The entry of st.experimental_memo for a call of filter_data keyed
\* without the symbol selections.
filter_key_without_symbols(df, account_selections, symbol_selections) ==
    <<df, account_selections>>

\* st.experimental_memo keys an entry by the values of the call's arguments.
clean_key(df) == <<df>>
filter_key(df, account_selections, symbol_selections) ==
    <<df, account_selections, symbol_selections>>

Cached(memo, key) == \E e \in memo : e.key = key
Recall(memo, key) == (CHOOSE e \in memo : e.key = key).value

AccountsChart == <<"accounts_bar">>
SymbolCharts == <<"value_bar", "sunburst", "pie", "gain_bar", "gain_percent_bar">>

RECURSIVE Repeat(_, _)
Repeat(element, n) == IF n = 0 THEN <<>> ELSE <<element>> \o Repeat(element, n - 1)

\* main() from the cleaned frame on (lines 105-212).
main_cleaned(run, cleaned, accounts_widget, symbols_widget) ==
    LET accounts == unique(Texts(Series(cleaned, account_name)))
        account_selections == multiselect(accounts_widget, accounts)
        chosen == [cleaned EXCEPT !.data =
                      RowsWhere(cleaned.data,
                                isin(Series(cleaned, account_name), account_selections))]
        symbols == unique(Texts(Series(chosen, symbol)))
        symbol_selections == multiselect(symbols_widget, symbols)
        key == filter_key(cleaned, account_selections, symbol_selections)
        hit == Cached(memo_filter, key)
        filtered == IF hit THEN Recall(memo_filter, key)
                    ELSE filter_data(cleaned, account_selections, symbol_selections).df
        summed == groupby_sum(filtered)
        page == run.rendered \o <<"cleaned_data", "accounts_multiselect",
                                  "symbols_multiselect", "grid">>
                    \o (IF Len(account_selections) > 1 THEN <<"metric_total">> ELSE <<>>)
    IN  [run EXCEPT
            !.df_clean = cleaned,
            !.sel_accounts = account_selections,
            !.sel_symbols = symbol_selections,
            !.acct_widget = [options |-> accounts, value |-> account_selections],
            !.sym_widget = [options |-> symbols, value |-> symbol_selections],
            !.df_filtered = filtered,
            !.memo_filter = IF hit THEN memo_filter
                            ELSE memo_filter \cup {[key |-> key, value |-> filtered]},
            !.hits = [@ EXCEPT !.filter = hit],
            !.totals = summed,
            \* st.columns(len(totals)) takes a positive number of columns
            !.err = IF Len(summed.data) = 0 THEN "StreamlitAPIException" ELSE "none",
            !.status = IF Len(summed.data) = 0 THEN "error" ELSE "rendered",
            !.rendered = IF Len(summed.data) = 0 THEN page \o <<"exception">>
                         ELSE page \o Repeat("metric_account", Len(summed.data))
                                   \o AccountsChart \o SymbolCharts]

\* main() with the uploader holding file (NoFrame: nothing uploaded) and
\* the multiselects as the user left them.
main(file, accounts_widget, symbols_widget) ==
    LET raw == IF file = NoFrame THEN ExampleFile ELSE file
        page == <<"header", "how_to_use", IF file = NoFrame THEN "info" ELSE "success",
                  "raw_dataframe">>
        key == clean_key(raw)
        hit == Cached(memo_clean, key)
        env == clean_data(raw)
        run == [df_raw |-> raw, df_clean |-> NoFrame, df_filtered |-> NoFrame,
                totals |-> NoFrame, sel_accounts |-> <<>>, sel_symbols |-> <<>>,
                status |-> "error", err |-> "none", rendered |-> page,
                acct_widget |-> NoWidget, sym_widget |-> NoWidget,
                memo_clean |-> memo_clean, memo_filter |-> memo_filter,
                hits |-> [clean |-> hit, filter |-> FALSE]]
    IN  IF hit THEN main_cleaned(run, Recall(memo_clean, key), accounts_widget, symbols_widget)
        ELSE IF env.err # "none"
        THEN [run EXCEPT !.err = env.err, !.rendered = page \o <<"exception">>]
        ELSE main_cleaned([run EXCEPT !.memo_clean =
                              memo_clean \cup {[key |-> key, value |-> env.df]}],
                          env.df, accounts_widget, symbols_widget)

\* The state the run leaves behind.
Rerun(run) ==
    /\ df_raw' = run.df_raw
    /\ df_clean' = run.df_clean
    /\ df_filtered' = run.df_filtered
    /\ totals' = run.totals
    /\ sel_accounts' = run.sel_accounts
    /\ sel_symbols' = run.sel_symbols
    /\ status' = run.status
    /\ err' = run.err
    /\ rendered' = run.rendered
    /\ acct_widget' = run.acct_widget
    /\ sym_widget' = run.sym_widget
    /\ memo_clean' = run.memo_clean
    /\ memo_filter' = run.memo_filter
    /\ hits' = run.hits
    /\ alias' = FALSE

\* The page is opened: main() runs on the example data.
Load ==
    /\ status = "start"
    /\ Rerun(main(NoFrame, NoWidget, NoWidget))
    /\ UNCHANGED <<uploaded, events>>

\* The user uploads a file, or takes the uploaded file away.
Upload ==
    /\ status # "start" /\ events < MaxEvents
    /\ \E file \in (Files \cup {NoFrame}) \ {uploaded} :
          /\ uploaded' = file
          /\ Rerun(main(file, acct_widget, sym_widget))
    /\ events' = events + 1

\* The user changes the selected accounts.
SelectAccounts ==
    /\ status # "start" /\ err # "ValueError" /\ events < MaxEvents
    /\ \E accounts \in Selections(acct_widget.options) \ {acct_widget.value} :
          Rerun(main(uploaded, [acct_widget EXCEPT !.value = accounts], sym_widget))
    /\ events' = events + 1
    /\ UNCHANGED uploaded

\* The user changes the selected symbols.
SelectSymbols ==
    /\ status # "start" /\ err # "ValueError" /\ events < MaxEvents
    /\ \E symbols \in Selections(sym_widget.options) \ {sym_widget.value} :
          Rerun(main(uploaded, acct_widget, [sym_widget EXCEPT !.value = symbols]))
    /\ events' = events + 1
    /\ UNCHANGED uploaded

Init == df_raw = NoFrame /\ status = "start" /\ Idle
Next == Load \/ Upload \/ SelectAccounts \/ SelectSymbols
Spec == Init /\ [][Next]_vars

-----------------------------------------------------------------------------
(* What the properties speak of, stated without the functions above *)

\* The label a header is to become.
LabelOf(h) ==
    CASE h = H_account_name -> account_name
      [] h = H_symbol -> symbol
      [] h = H_quantity -> quantity
      [] h = H_last_price -> last_price
      [] h = H_current_value -> current_value
      [] h = H_total_gain_loss_dollar -> total_gain_loss_dollar
      [] h = H_cost_basis_per_share -> cost_basis_per_share
      [] h = H_type -> type

Position(header, h) == CHOOSE j \in 1..Len(header) : header[j] = h

\* Column k of the input lies in last_price .. cost_basis_per_share.
InPriceRange(header, k) ==
    Position(header, H_last_price) <= k /\ k <= Position(header, H_cost_basis_per_share)

\* The row misses a value outside the type column.
Incomplete(header, row) ==
    \E k \in 1..Len(header) : header[k] # H_type /\ isna(row[k])

Complete(header, row) == ~Incomplete(header, row)

\* The input rows that miss nothing outside the type column, in order.
Survivors(df) == SelectSeq(df.data, LAMBDA row : Complete(df.columns, row))

NotCurrencySign(t) == t \notin {"$", "%"}

\* The text with every "$" and "%" removed.
Bare(text) == SelectSeq(text, NotCurrencySign)

SpellsNaN(text) == Bare(text) = <<"nan">>

SpellsNumber(text) ==
    \/ IsDigits(Bare(text))
    \/ Bare(text) # <<>> /\ Head(Bare(text)) = "-" /\ IsDigits(Tail(Bare(text)))

\* float() rejects the bare text.
Unparseable(text) == ~SpellsNumber(text) /\ ~SpellsNaN(text)

\* The float the bare text denotes.
Denoted(text) ==
    IF SpellsNaN(text) THEN NA
    ELSE IF Head(Bare(text)) = "-" THEN Num(0 - DigitsValue(Tail(Bare(text))))
    ELSE Num(DigitsValue(Bare(text)))

\* A surviving row holds text in the price range that float() rejects.
SurvivorUnparseable(df) ==
    \E i \in 1..Len(Survivors(df)) : \E k \in 1..Len(df.columns) :
        /\ InPriceRange(df.columns, k)
        /\ Unparseable(Survivors(df)[i][k].s)

\* A dropped row holds text in the price range that float() rejects.
DroppedUnparseable(df) ==
    \E i \in 1..Len(df.data) : \E k \in 1..Len(df.columns) :
        /\ Incomplete(df.columns, df.data[i])
        /\ InPriceRange(df.columns, k)
        /\ ~isna(df.data[i][k])
        /\ Unparseable(df.data[i][k].s)

\* The cleaned cell of surviving row i under the label of input column k.
CleanedCell(i, k) ==
    df_clean.data[i][get_loc(df_clean.columns, LabelOf(df_raw.columns[k]))]

Cleaned == status = "cleaned"

-----------------------------------------------------------------------------
(* C2 *)

TypeFilledRowsDropped ==
    /\ Len(df_clean.data) = Len(Survivors(df_raw))
    /\ \A i \in 1..Len(df_clean.data) :
          LET k == Position(df_raw.columns, H_type)
              was == Survivors(df_raw)[i][k]
          IN  /\ CleanedCell(i, k) = IF isna(was) THEN Str(<<"unknown">>) ELSE was
              /\ CleanedCell(i, Position(df_raw.columns, H_account_name))
                    = Survivors(df_raw)[i][Position(df_raw.columns, H_account_name)]

-----------------------------------------------------------------------------
(* C3 *)

-----------------------------------------------------------------------------
(* C4 *)

InputLabels == [k \in 1..Len(df_raw.columns) |-> LabelOf(df_raw.columns[k])]

\* 1 for quantity .. cost_basis_per_share, 2 for what precedes quantity,
\* 3 for what follows cost_basis_per_share.
Block(header, k) ==
    IF Position(header, H_quantity) <= k /\ k <= Position(header, H_cost_basis_per_share)
    THEN 1
    ELSE IF k < Position(header, H_quantity) THEN 2 ELSE 3

Places(columns, label) == {j \in 1..Len(columns) : columns[j] = label}

ColumnsReordered ==
    /\ Len(df_clean.columns) = Len(df_raw.columns)
    /\ \A k \in 1..Len(df_raw.columns) :
          Cardinality(Places(df_clean.columns, InputLabels[k])) = 1
    /\ \A k1, k2 \in 1..Len(df_raw.columns) :
          (\/ Block(df_raw.columns, k1) < Block(df_raw.columns, k2)
           \/ Block(df_raw.columns, k1) = Block(df_raw.columns, k2) /\ k1 < k2)
          => \A j1 \in Places(df_clean.columns, InputLabels[k1]) :
                \A j2 \in Places(df_clean.columns, InputLabels[k2]) : j1 < j2

\* C4 as stated: for every input with a quantity and a cost_basis_per_share
\* column the output has quantity .. cost_basis_per_share first, then what
\* preceded quantity, then what followed cost_basis_per_share, each in its
\* original order, and is a permutation of the input's columns.
C4_ReorderedForEveryInput == Cleaned => ColumnsReordered

\* C4, amended: the same for every input whose quantity column comes before
\* its cost_basis_per_share column.
C4_ReorderedWhenQuantityFirst ==
    (Cleaned /\ Position(df_raw.columns, H_quantity)
                    < Position(df_raw.columns, H_cost_basis_per_share))
        => ColumnsReordered

C4_Witness ==
    /\ Cleaned
    /\ df_raw.columns = GainsInside
    /\ Len(df_clean.data) > 0
    /\ df_clean.columns = <<quantity, last_price, current_value, total_gain_loss_dollar,
                            cost_basis_per_share, account_name, symbol, type>>

-----------------------------------------------------------------------------
(* C5 *)

\* C5: for an input in the header order of the interface description the
\* cleaned total gain/loss column holds floats.
C5_GainColumnHoldsFloats ==
    (Cleaned /\ df_raw.columns = Vocabulary) =>
        \A i \in 1..Len(df_clean.data) :
            Series(df_clean, total_gain_loss_dollar)[i].k = "num"

-----------------------------------------------------------------------------
(* C10 *)

\* C10: clean_data raises the parse error exactly when a row that survives
\* the drop holds text in last_price .. cost_basis_per_share that float()
\* rejects; such text in a dropped row raises nothing.
C10_ParseErrorIffSurvivorUnparseable ==
    /\ status = "cleaned" => err = "none" /\ ~SurvivorUnparseable(df_raw)
    /\ status = "error" => err = "ValueError" /\ SurvivorUnparseable(df_raw)

C10_Witness == Cleaned /\ DroppedUnparseable(df_raw) /\ Len(df_clean.data) > 0

-----------------------------------------------------------------------------
(* C1 *)

\* The row's account is among the accounts and its symbol among the symbols.
Selected(columns, row, accounts, symbols) ==
    /\ row[get_loc(columns, account_name)].s \in Members(accounts)
    /\ row[get_loc(columns, symbol)].s \in Members(symbols)

Filtered == status \in {"filtered", "aggregated"}

\* C1: filter_data returns exactly the rows whose account_name is among the
\* selected accounts and whose symbol is among the selected symbols, in
\* their input order; with either selection empty it returns no rows.
C1_ExactlyTheSelectedRows ==
    Filtered =>
        /\ df_filtered.columns = df_clean.columns
        /\ df_filtered.data =
              SelectSeq(df_clean.data,
                        LAMBDA row : Selected(df_clean.columns, row, sel_accounts, sel_symbols))
        /\ (sel_accounts = <<>> \/ sel_symbols = <<>>) => df_filtered.data = <<>>

C1_Witness ==
    /\ status = "filtered"
    /\ Len(df_filtered.data) = 1 /\ Len(df_clean.data) = 2
    /\ sel_accounts = <<B, A>> /\ sel_symbols = <<Y>>

-----------------------------------------------------------------------------
(* C8 *)

\* C8: clean_data leaves the raw frame it is given as it was and filter_data
\* leaves the cleaned frame it is given as it was, and each returns a frame
\* of its own.
C8_ArgumentsLeftUnchanged ==
    [][/\ df_raw' = df_raw
       /\ status = "raw" /\ status' = "cleaned" => ~alias'
       /\ status = "cleaned" => df_clean' = df_clean /\ ~alias']_vars

C8_Witness ==
    /\ status = "filtered"
    /\ Len(df_filtered.data) < Len(df_clean.data)
    /\ df_clean.columns # df_raw.columns
    /\ ~alias

-----------------------------------------------------------------------------
(* C9 *)

RECURSIVE Total(_, _)
\* The sum of f over the finite set S.
Total(S, f) ==
    IF S = {} THEN 0
    ELSE LET x == CHOOSE x \in S : TRUE IN f[x] + Total(S \ {x}, f)

\* The rows of the filtered frame that belong to the account.
RowsOf(account) ==
    {i \in 1..Len(df_filtered.data) : Series(df_filtered, account_name)[i] = account}

AccountsPresent == {Series(df_filtered, account_name)[i] : i \in 1..Len(df_filtered.data)}

SummedLabels == {quantity, last_price, current_value, total_gain_loss_dollar,
                 cost_basis_per_share}

\* C9: the aggregation has exactly one row for each account_name among the
\* filtered rows, and in it current_value, like every numeric column, is
\* the sum of the column over the account's filtered rows.
C9_OneRowPerAccountWithSums ==
    status = "aggregated" =>
        /\ Len(totals.data) = Cardinality(AccountsPresent)
        /\ \A account \in AccountsPresent :
              \E g \in 1..Len(totals.data) :
                  /\ Series(totals, account_name)[g] = account
                  /\ \A label \in SummedLabels :
                        /\ Cardinality(Places(totals.columns, label)) = 1
                        /\ Series(totals, label)[g] =
                              Num(Total(RowsOf(account),
                                        [i \in RowsOf(account) |->
                                            Series(df_filtered, label)[i].v]))

C9_Witness ==
    /\ status = "aggregated"
    /\ Len(totals.data) = 1 /\ Len(df_filtered.data) = 2
    /\ Series(df_filtered, current_value) = <<Num(1), Num(2)>>
    /\ Series(totals, current_value) = <<Num(3)>>

-----------------------------------------------------------------------------
(* C6 *)

\* The tables, metrics and charts main() draws from the uploaded data.
FromData == {"raw_dataframe", "cleaned_data", "grid", "metric_total", "metric_account",
             "accounts_bar", "value_bar", "sunburst", "pie", "gain_bar",
             "gain_percent_bar"}

Shown == Members(rendered) \cap FromData

\* A run of main() has ended on data in which a kept row holds text in
\* last_price .. cost_basis_per_share that is no number.
RanOnUnparseable == status # "start" /\ SurvivorUnparseable(df_raw)

\* C6 as stated: in such a run the cleaning fails, the run ends in an error
\* and the page holds no table, metric or chart drawn from the uploaded
\* data.
C6_NothingFromTheDataShown ==
    RanOnUnparseable => status = "error" /\ err = "ValueError" /\ Shown = {}

\* C6, amended: in such a run the cleaning fails, the run ends in an error
\* and the page holds no table, metric or chart drawn from the uploaded
\* data other than the raw dataframe table written before the cleaning.
C6_OnlyTheRawTableShown ==
    RanOnUnparseable =>
        /\ status = "error" /\ err = "ValueError"
        /\ Shown = {"raw_dataframe"}
        /\ rendered[Len(rendered)] = "exception"

C6_Witness ==
    /\ RanOnUnparseable
    /\ uploaded = BadKeptFile
    /\ status = "error"
    /\ events > 0

-----------------------------------------------------------------------------
(* C7 *)

====
